---- MODULE Spec2Model ----
(***************************************************************************)
(* Model of src/lib/supabase.ts: the typed data-access helpers of the      *)
(* cadet-management application.  Every helper builds one request, awaits  *)
(* the backend's answer and either returns the data or throws.  The        *)
(* backend (table storage, authentication, the create-cadet function) is   *)
(* the environment: its answer to a request is drawn from the answers the  *)
(* SDK can give for that request on the current tables.                    *)
(***************************************************************************)
EXTENDS Integers, Sequences, FiniteSets, TLC

VARIABLES db, session, op, args, answer, outcome, value, trace

vars == <<db, session, op, args, answer, outcome, value, trace>>

(***************************************************************************)
(* Bounds                                                                  *)
(***************************************************************************)
MaxCadets == 2
MaxTasks == 2
MaxRows == 2
MaxScore == 1

CadetIds == 1..MaxCadets
TaskIds == 1..MaxTasks
RowIds == 1..MaxRows
Scores == 0..MaxScore
Emails == {"a@x"}

(***************************************************************************)
(* JavaScript values                                                       *)
(***************************************************************************)
Null == [t |-> "null"]
Undefined == [t |-> "undefined"]
Str(s) == [t |-> "string", v |-> s]
List(s) == [t |-> "list", v |-> s]
Obj(r) == [t |-> "object", v |-> r]
EmptyList == List(<<>>)

\* JavaScript truthiness, as used by `data || []` and `errorData.error || '...'`
Truthy(v) == /\ v.t \notin {"null", "undefined"}
             /\ ~(v.t = "string" /\ v.v = "")

\* error objects the SDK reports for a request that failed as a whole
Failures(kind) == {[t |-> "error", name |-> kind, code |-> c] : c \in {"denied", "unavailable"}}
\* the error `.single()` reports when the result is not exactly one row
NotSingleRow == [t |-> "error", name |-> "PostgrestError", code |-> "PGRST116"]
NetworkError == [t |-> "error", name |-> "TypeError", code |-> "Failed to fetch"]
JsonSyntaxError == [t |-> "error", name |-> "SyntaxError", code |-> "Unexpected token"]
NullAccessError == [t |-> "error", name |-> "TypeError", code |-> "Cannot read properties of null"]
NewError(message) == [t |-> "error", name |-> "Error", code |-> message]

(***************************************************************************)
(* Tables: record shapes of lines 9-94 and 202-210, reduced to the columns *)
(* the queries filter, order or update on.  Rows are numbered in the order *)
(* of their creation: the row with id i carries the timestamp i.           *)
(***************************************************************************)
CadetTables ==
  UNION {{ {[id |-> i, total_score |-> f[i]] : i \in I} : f \in [I -> Scores]}
         : I \in SUBSET CadetIds}

TaskAttrs == [status : {"active", "inactive", "null"}, is_active : BOOLEAN]

TaskTables ==
  UNION {{ {[id |-> i, status |-> f[i].status, is_active |-> f[i].is_active,
             created_at |-> i] : i \in I} : f \in [I -> TaskAttrs]}
         : I \in SUBSET TaskIds}

ScoreTables ==
  UNION {{ {[id |-> i, cadet_id |-> f[i]] : i \in I} : f \in [I -> CadetIds]}
         : I \in SUBSET RowIds}

ScoreHistoryTables ==
  UNION {{ {[id |-> i, cadet_id |-> f[i], category |-> "study", points |-> 1,
             description |-> "award", created_at |-> i] : i \in I}
           : f \in [I -> CadetIds]}
         : I \in SUBSET RowIds}

DatedTables == {{[id |-> i, created_at |-> i] : i \in I} : I \in SUBSET RowIds}

CadetAchievementTables ==
  UNION {{ {[id |-> i, cadet_id |-> f[i], awarded_date |-> i] : i \in I}
           : f \in [I -> CadetIds]}
         : I \in SUBSET RowIds}

EmptyDb == [cadets |-> {}, tasks |-> {}, news |-> {}, achievements |-> {},
            auto_achievements |-> {}, cadet_achievements |-> {}, scores |-> {},
            score_history |-> {}]

\* the initial databases: one table holds rows, the others are empty
InitDbs ==
  {[EmptyDb EXCEPT !.cadets = T] : T \in CadetTables}
  \cup {[EmptyDb EXCEPT !.scores = T] : T \in ScoreTables}
  \cup {[EmptyDb EXCEPT !.score_history = T] : T \in ScoreHistoryTables}
  \cup {[EmptyDb EXCEPT !.cadet_achievements = T] : T \in CadetAchievementTables}
  \cup {[EmptyDb EXCEPT !.tasks = T] : T \in TaskTables}
  \cup {[EmptyDb EXCEPT !.news = T] : T \in DatedTables}
  \cup {[EmptyDb EXCEPT !.achievements = T] : T \in DatedTables}
  \cup {[EmptyDb EXCEPT !.auto_achievements = T] : T \in DatedTables}

(***************************************************************************)
(* Requests.  Every request has the same fields; a field a request does    *)
(* not use holds "none", NoFilter, NoOrder or Null.                        *)
(***************************************************************************)
NoFilter == <<>>
NoOrder == <<>>

\* supabase.from(table).select(columns)[.eq(col, val)][.order(col, {ascending})][.single()]
Select(table, columns, filter, order, single) ==
  [kind |-> "rest", method |-> "select", path |-> "/rest/v1", table |-> table,
   columns |-> columns, filter |-> filter, order |-> order, single |-> single,
   payload |-> Null]

\* supabase.from(table).update(payload).eq(col, val).select().single()
Update(table, payload, filter) ==
  [kind |-> "rest", method |-> "update", path |-> "/rest/v1", table |-> table,
   columns |-> "*", filter |-> filter, order |-> NoOrder, single |-> TRUE,
   payload |-> Obj(payload)]

\* supabase.from(table).delete().eq(col, val)
Delete(table, filter) ==
  [kind |-> "rest", method |-> "delete", path |-> "/rest/v1", table |-> table,
   columns |-> "none", filter |-> filter, order |-> NoOrder, single |-> FALSE,
   payload |-> Null]

\* supabase.auth.<method>(payload)
Auth(method, payload) ==
  [kind |-> "auth", method |-> method, path |-> "/auth/v1", table |-> "none",
   columns |-> "none", filter |-> NoFilter, order |-> NoOrder, single |-> FALSE,
   payload |-> payload]

\* fetch(`${supabaseUrl}${path}`, { method, body: JSON.stringify(payload) })
Fetch(method, path, payload) ==
  [kind |-> "fetch", method |-> method, path |-> path, table |-> "none",
   columns |-> "none", filter |-> NoFilter, order |-> NoOrder, single |-> FALSE,
   payload |-> Obj(payload)]

(***************************************************************************)
(* The backend's evaluation of a table request                             *)
(***************************************************************************)
Matching(q) ==
  {r \in db[q.table] : q.filter = NoFilter \/ r[q.filter[1]] = q.filter[2]}

RECURSIVE Perms(_)
Perms(S) == IF S = {} THEN {<<>>}
            ELSE UNION {{<<x>> \o p : p \in Perms(S \ {x})} : x \in S}

InOrder(a, b, ascending) == IF ascending THEN a <= b ELSE a >= b

\* the orders in which the backend may deliver rows for an ORDER BY clause
\* (rows with equal keys come in any order)
Ordered(rows, order) ==
  IF order = NoOrder THEN Perms(rows)
  ELSE {s \in Perms(rows) :
          \A i \in 1..(Len(s) - 1) :
             InOrder(s[i][order[1]], s[i + 1][order[1]], order[2])}

\* answers { data, error } to a select without .single()
ListResponses(q) ==
  {[data |-> List(s), error |-> Null] : s \in Ordered(Matching(q), q.order)}
  \cup (IF Matching(q) = {} THEN {[data |-> Null, error |-> Null]} ELSE {})
  \cup {[data |-> Null, error |-> e] : e \in Failures("PostgrestError")}

\* answers { data, error } to a request ending in .single()
SingleResponses(rows) ==
  (IF Cardinality(rows) = 1
     THEN {[data |-> Obj(r), error |-> Null] : r \in rows}
     ELSE {[data |-> Null, error |-> NotSingleRow]})
  \cup {[data |-> Null, error |-> e] : e \in Failures("PostgrestError")}

\* answers { error } to a delete
DeleteResponses ==
  {[data |-> Null, error |-> Null]}
  \cup {[data |-> Null, error |-> e] : e \in Failures("PostgrestError")}

(***************************************************************************)
(* What a helper does with the answer                                      *)
(***************************************************************************)
Ev(e, v) == [ev |-> e, val |-> v]

\* a bug: the error is replaced by a new one carrying the label
Fail_wrapped(label, error) ==
  [outcome |-> "threw", value |-> NewError(label),
   events |-> <<Ev("log", <<label, error>>), Ev("throw", NewError(label))>>]

\* a bug: the error is thrown without being logged
Fail_silent(label, error) ==
  [outcome |-> "threw", value |-> error, events |-> <<Ev("throw", error)>>]

\* console.error(label, error); throw error;
Fail(label, error) ==
  [outcome |-> "threw", value |-> error,
   events |-> <<Ev("log", <<label, error>>), Ev("throw", error)>>]

\* throw new ...  (addCadetByAdmin: nothing is logged)
Throw(error) ==
  [outcome |-> "threw", value |-> error, events |-> <<Ev("throw", error)>>]

Return(v) ==
  [outcome |-> "returned", value |-> v, events |-> <<Ev("return", v)>>]

\* a bug: `return data` in place of `return data || []`
ListResult_raw(label, resp) ==
  IF Truthy(resp.error) THEN Fail(label, resp.error)
  ELSE Return(resp.data)

\* if (error) {...}  return data || [];
ListResult(label, resp) ==
  IF Truthy(resp.error) THEN Fail(label, resp.error)
  ELSE Return(IF Truthy(resp.data) THEN resp.data ELSE EmptyList)

\* if (error) {...}  return data;
DataResult(label, resp) ==
  IF Truthy(resp.error) THEN Fail(label, resp.error)
  ELSE Return(resp.data)

\* if (error) {...}   (the function ends without a return statement)
VoidResult(label, resp) ==
  IF Truthy(resp.error) THEN Fail(label, resp.error)
  ELSE Return(Undefined)

\* const { data: { user }, error } = ...; if (error) {...}  return user;
UserResult(label, resp) ==
  IF Truthy(resp.error) THEN Fail(label, resp.error)
  ELSE Return(resp.data.v.user)

\* one invocation: the request goes out, the answer comes back, the helper ends
Finish(name, arguments, request, resp, res) ==
  /\ op' = name
  /\ args' = arguments
  /\ answer' = resp
  /\ outcome' = res.outcome
  /\ value' = res.value
  /\ trace' = <<Ev("request", request)>> \o res.events

(***************************************************************************)
(* Data fetching functions                                                 *)
(***************************************************************************)
\* a bug: ascending order
getCadetsQuery_ascending == Select("cadets", "*", NoFilter, <<"total_score", TRUE>>, FALSE)

getCadetsQuery == Select("cadets", "*", NoFilter, <<"total_score", FALSE>>, FALSE)

getCadets ==
  /\ \E resp \in ListResponses(getCadetsQuery) :
        Finish("getCadets", <<>>, getCadetsQuery, resp,
               ListResult("Error fetching cadets:", resp))
  /\ UNCHANGED <<db, session>>

\* a bug: the filter is on the is_active flag
getTasksQuery_flag ==
  Select("tasks", "*", <<"is_active", TRUE>>, <<"created_at", FALSE>>, FALSE)

getTasksQuery ==
  Select("tasks", "*", <<"status", "active">>, <<"created_at", FALSE>>, FALSE)

getTasks ==
  /\ \E resp \in ListResponses(getTasksQuery) :
        Finish("getTasks", <<>>, getTasksQuery, resp,
               ListResult("Error fetching tasks:", resp))
  /\ UNCHANGED <<db, session>>

getNewsQuery == Select("news", "*", NoFilter, <<"created_at", FALSE>>, FALSE)

getNews ==
  /\ \E resp \in ListResponses(getNewsQuery) :
        Finish("getNews", <<>>, getNewsQuery, resp,
               ListResult("Error fetching news:", resp))
  /\ UNCHANGED <<db, session>>

getAchievementsQuery ==
  Select("achievements", "*", NoFilter, <<"created_at", FALSE>>, FALSE)

getAchievements ==
  /\ \E resp \in ListResponses(getAchievementsQuery) :
        Finish("getAchievements", <<>>, getAchievementsQuery, resp,
               ListResult("Error fetching achievements:", resp))
  /\ UNCHANGED <<db, session>>

getAutoAchievementsQuery ==
  Select("auto_achievements", "*", NoFilter, <<"created_at", FALSE>>, FALSE)

getAutoAchievements ==
  /\ \E resp \in ListResponses(getAutoAchievementsQuery) :
        Finish("getAutoAchievements", <<>>, getAutoAchievementsQuery, resp,
               ListResult("Error fetching auto achievements:", resp))
  /\ UNCHANGED <<db, session>>

\* the embedded achievement and auto_achievement are named in the columns;
\* the rows are delivered without them
getCadetAchievementsQuery(cadetId) ==
  Select("cadet_achievements",
         "*, achievement:achievements(*), auto_achievement:auto_achievements(*)",
         <<"cadet_id", cadetId>>, <<"awarded_date", FALSE>>, FALSE)

getCadetAchievements ==
  /\ \E cadetId \in CadetIds :
       \E resp \in ListResponses(getCadetAchievementsQuery(cadetId)) :
          Finish("getCadetAchievements", <<cadetId>>,
                 getCadetAchievementsQuery(cadetId), resp,
                 ListResult("Error fetching cadet achievements:", resp))
  /\ UNCHANGED <<db, session>>

getCadetScoresQuery(cadetId) ==
  Select("scores", "*", <<"cadet_id", cadetId>>, NoOrder, TRUE)

getCadetScores ==
  /\ \E cadetId \in CadetIds :
       \E resp \in SingleResponses(Matching(getCadetScoresQuery(cadetId))) :
          Finish("getCadetScores", <<cadetId>>, getCadetScoresQuery(cadetId), resp,
                 DataResult("Error fetching cadet scores:", resp))
  /\ UNCHANGED <<db, session>>

getScoreHistoryQuery(cadetId) ==
  Select("score_history", "*", <<"cadet_id", cadetId>>, <<"created_at", FALSE>>, FALSE)

getScoreHistory ==
  /\ \E cadetId \in CadetIds :
       \E resp \in ListResponses(getScoreHistoryQuery(cadetId)) :
          Finish("getScoreHistory", <<cadetId>>, getScoreHistoryQuery(cadetId), resp,
                 ListResult("Error fetching score history:", resp))
  /\ UNCHANGED <<db, session>>

getCadetByIdQuery(id) == Select("cadets", "*", <<"id", id>>, NoOrder, TRUE)

getCadetById ==
  /\ \E id \in CadetIds :
       \E resp \in SingleResponses(Matching(getCadetByIdQuery(id))) :
          Finish("getCadetById", <<id>>, getCadetByIdQuery(id), resp,
                 DataResult("Error fetching cadet:", resp))
  /\ UNCHANGED <<db, session>>

(***************************************************************************)
(* addCadetByAdmin: one POST to the create-cadet function                  *)
(***************************************************************************)
CadetInputs ==
  {[name |-> "n", email |-> e, password |-> "pw", platoon |-> "1", squad |-> 1]
     : e \in Emails}

JsonBody(v) == [k |-> "json", v |-> v]
TextBody == [k |-> "text"]

Rejected(error) == [t |-> "reject", ok |-> FALSE, error |-> error, body |-> TextBody]
Response(ok, body) == [t |-> "response", ok |-> ok, error |-> Null, body |-> body]

\* bodies of an error response: { error: <message> }, {}, { error: "" },
\* the JSON value null, or a body that is not JSON
ErrorBodies ==
  {JsonBody(Obj([error |-> m, cadet |-> Undefined]))
     : m \in {Undefined, Str(""), Str("exists")}}
  \cup {JsonBody(Null), TextBody}

\* answers to the POST with an error status, and a fetch that is rejected
FailedFetches ==
  {Rejected(NetworkError)} \cup {Response(FALSE, b) : b \in ErrorBodies}

\* answers to the POST with a success status: { cadet: <the created cadet> },
\* the JSON value null, or a body that is not JSON
OkFetches ==
  {Response(TRUE, JsonBody(Obj([error |-> Undefined,
                                cadet |-> Obj([id |-> cid, total_score |-> 0])])))
     : cid \in CadetIds}
  \cup {Response(TRUE, JsonBody(Null)), Response(TRUE, TextBody)}

\* lines 245-251: response.json() throws on a body that is not JSON, and
\* reading .error or .cadet of null throws
AddCadetResult(fr) ==
  IF fr.t = "reject" THEN Throw(fr.error)
  ELSE IF fr.body.k = "text" THEN Throw(JsonSyntaxError)
  ELSE IF fr.body.v = Null THEN Throw(NullAccessError)
  ELSE IF ~fr.ok
    THEN Throw(NewError(IF Truthy(fr.body.v.v.error)
                           THEN fr.body.v.v.error.v
                           ELSE "Failed to create cadet"))
    ELSE Return(fr.body.v.v.cadet)

\* the rows the create-cadet function writes are written by the server; the
\* request names no table, and the tables of the model are left as they are
addCadetByAdmin ==
  /\ \E cadetData \in CadetInputs :
       \E fr \in FailedFetches \cup OkFetches :
          Finish("addCadetByAdmin", <<cadetData>>,
                 Fetch("POST", "/functions/v1/create-cadet", cadetData),
                 fr, AddCadetResult(fr))
  /\ UNCHANGED <<db, session>>

(***************************************************************************)
(* updateCadetByAdmin, deleteCadet                                         *)
(***************************************************************************)
CadetUpdates == [total_score : Scores]

Updated(rows, cadetData) ==
  {[r EXCEPT !.total_score = cadetData.total_score] : r \in rows}

\* a bug: a failed update is sent a second time
updateCadetByAdmin_retry ==
  /\ \E id \in CadetIds, cadetData \in CadetUpdates :
       LET req == Update("cadets", cadetData, <<"id", id>>)
           hit == Matching(req)
       IN \E resp \in SingleResponses(Updated(hit, cadetData)) :
            LET res == DataResult("Error updating cadet:", resp) IN
            /\ Finish("updateCadetByAdmin", <<id, cadetData>>, req, resp,
                      IF Truthy(resp.error)
                        THEN [res EXCEPT !.events = <<Ev("request", req)>> \o @]
                        ELSE res)
            /\ db' = IF Truthy(resp.error) THEN db
                     ELSE [db EXCEPT !.cadets = (@ \ hit) \cup Updated(hit, cadetData)]
  /\ UNCHANGED session

updateCadetByAdmin ==
  /\ \E id \in CadetIds, cadetData \in CadetUpdates :
       LET req == Update("cadets", cadetData, <<"id", id>>)
           hit == Matching(req)
       IN \E resp \in SingleResponses(Updated(hit, cadetData)) :
            /\ Finish("updateCadetByAdmin", <<id, cadetData>>, req, resp,
                      DataResult("Error updating cadet:", resp))
            /\ db' = IF Truthy(resp.error) THEN db
                     ELSE [db EXCEPT !.cadets = (@ \ hit) \cup Updated(hit, cadetData)]
  /\ UNCHANGED session

\* a bug: the cadet's score row is deleted by a second request
deleteCadet_scores ==
  /\ \E id \in CadetIds :
       LET req == Delete("cadets", <<"id", id>>)
           more == Delete("scores", <<"cadet_id", id>>)
       IN \E resp \in DeleteResponses :
            LET res == VoidResult("Error deleting cadet:", resp) IN
            /\ Finish("deleteCadet", <<id>>, req, resp,
                      [res EXCEPT !.events = <<Ev("request", more)>> \o @])
            /\ db' = IF Truthy(resp.error) THEN db
                     ELSE [db EXCEPT !.cadets = @ \ Matching(req),
                                     !.scores = @ \ Matching(more)]
  /\ UNCHANGED session

\* a bug: the delete goes to the cadet's score history
deleteCadet_history ==
  /\ \E id \in CadetIds :
       LET req == Delete("score_history", <<"cadet_id", id>>)
       IN \E resp \in DeleteResponses :
            /\ Finish("deleteCadet", <<id>>, req, resp,
                      VoidResult("Error deleting cadet:", resp))
            /\ db' = IF Truthy(resp.error) THEN db
                     ELSE [db EXCEPT !.score_history = @ \ Matching(req)]
  /\ UNCHANGED session

deleteCadet ==
  /\ \E id \in CadetIds :
       LET req == Delete("cadets", <<"id", id>>)
       IN \E resp \in DeleteResponses :
            /\ Finish("deleteCadet", <<id>>, req, resp,
                      VoidResult("Error deleting cadet:", resp))
            /\ db' = IF Truthy(resp.error) THEN db
                     ELSE [db EXCEPT !.cadets = @ \ Matching(req)]
  /\ UNCHANGED session

(***************************************************************************)
(* Authentication functions                                                *)
(***************************************************************************)
Credentials == [email : Emails, password : {"pw"}]

AuthFailures(data) ==
  {[data |-> data, error |-> e] : e \in Failures("AuthError")}

NoUser == Obj([user |-> Null, session |-> Null])

\* { user, session }: the session is absent when the address awaits confirmation
SignUpResponses(email) ==
  {[data |-> Obj([user |-> Str(email), session |-> s]), error |-> Null]
     : s \in {Null, Str(email)}}
  \cup AuthFailures(NoUser)

signUp ==
  /\ \E c \in Credentials :
       \E resp \in SignUpResponses(c.email) :
          /\ Finish("signUp", <<c.email, c.password>>, Auth("signUp", Obj(c)), resp,
                    DataResult("Error signing up:", resp))
          /\ session' = IF ~Truthy(resp.error) /\ Truthy(resp.data.v.session)
                          THEN c.email ELSE session
  /\ UNCHANGED db

SignInResponses(email) ==
  {[data |-> Obj([user |-> Str(email), session |-> Str(email)]), error |-> Null]}
  \cup AuthFailures(NoUser)

signIn ==
  /\ \E c \in Credentials :
       \E resp \in SignInResponses(c.email) :
          /\ Finish("signIn", <<c.email, c.password>>,
                    Auth("signInWithPassword", Obj(c)), resp,
                    DataResult("Error signing in:", resp))
          /\ session' = IF Truthy(resp.error) THEN session ELSE c.email
  /\ UNCHANGED db

SignOutResponses == {[data |-> Null, error |-> Null]} \cup AuthFailures(Null)

signOut ==
  /\ \E resp \in SignOutResponses :
        /\ Finish("signOut", <<>>, Auth("signOut", Null), resp,
                  VoidResult("Error signing out:", resp))
        /\ session' = IF Truthy(resp.error) THEN session ELSE "none"
  /\ UNCHANGED db

SessionMissing == [t |-> "error", name |-> "AuthError", code |-> "session_missing"]

\* { data: { user }, error }: without a session the SDK answers with a null
\* user, with or without an error
GetUserResponses ==
  {[data |-> Obj([user |-> IF session = "none" THEN Null ELSE Str(session)]),
    error |-> Null]}
  \cup (IF session = "none"
          THEN {[data |-> Obj([user |-> Null]), error |-> SessionMissing]} ELSE {})
  \cup AuthFailures(Obj([user |-> Null]))

getCurrentUser ==
  /\ \E resp \in GetUserResponses :
        Finish("getCurrentUser", <<>>, Auth("getUser", Null), resp,
               UserResult("Error getting current user:", resp))
  /\ UNCHANGED <<db, session>>

(***************************************************************************)
(* The specification                                                       *)
(***************************************************************************)
Init ==
  /\ db \in InitDbs
  /\ session = "none"
  /\ op = "none"
  /\ args = <<>>
  /\ answer = [data |-> Null, error |-> Null]
  /\ outcome = "none"
  /\ value = Undefined
  /\ trace = <<>>

Next ==
  \/ getCadets
  \/ getTasks
  \/ getNews
  \/ getAchievements
  \/ getAutoAchievements
  \/ getCadetAchievements
  \/ getCadetScores
  \/ getScoreHistory
  \/ addCadetByAdmin
  \/ updateCadetByAdmin
  \/ deleteCadet
  \/ getCadetById
  \/ signUp
  \/ signIn
  \/ signOut
  \/ getCurrentUser

Spec == Init /\ [][Next]_vars

(***************************************************************************)
(* Properties                                                              *)
(***************************************************************************)
ListOps == {"getCadets", "getTasks", "getNews", "getAchievements",
            "getAutoAchievements", "getCadetAchievements", "getScoreHistory"}

Invoked == outcome # "none"

\* the backend call of the last invocation reported a failure
BackendFailed ==
  /\ Invoked
  /\ IF op = "addCadetByAdmin" THEN answer.t = "reject" \/ ~answer.ok
     ELSE Truthy(answer.error)

\* the failure the backend reported: the SDK's error object, the error fetch
\* was rejected with, or the error response
Reported ==
  IF op # "addCadetByAdmin" THEN answer.error
  ELSE IF answer.t = "reject" THEN answer.error
  ELSE answer

Positions(e) == {i \in DOMAIN trace : trace[i].ev = e}

\* exactly one log event, for the reported error, ahead of the throw
LoggedThenThrown ==
  /\ Cardinality(Positions("log")) = 1
  /\ Cardinality(Positions("throw")) = 1
  /\ \A i \in Positions("log") :
        /\ trace[i].val[2] = Reported
        /\ \A j \in Positions("throw") : i < j

\* C1 (as stated): whenever the backend call reports a failure, the operation
\* throws exactly the error the backend reported and never returns a value.
C1_PassThrough ==
  BackendFailed => (outcome = "threw" /\ value = Reported)

\* C1 (amended): a failed backend call always ends in a throw; the fifteen
\* SDK-based operations throw the reported error itself, and addCadetByAdmin
\* throws the rejection error of fetch unchanged but, for an error response
\* with a JSON object body, a new Error whose message is the body's error
\* field when that is non-empty and 'Failed to create cadet' otherwise.
C1_PassThroughExceptAddCadet ==
  /\ BackendFailed => outcome = "threw"
  /\ (BackendFailed /\ op # "addCadetByAdmin") => value = Reported
  /\ (BackendFailed /\ op = "addCadetByAdmin" /\ answer.t = "reject")
        => value = Reported
  /\ (BackendFailed /\ op = "addCadetByAdmin" /\ answer.t = "response"
        /\ answer.body.k = "json" /\ answer.body.v.t = "object")
        => /\ value # Reported
           /\ value.name = "Error"
           /\ value.code = (IF answer.body.v.v.error.t = "string"
                                 /\ answer.body.v.v.error.v # ""
                              THEN answer.body.v.v.error.v
                              ELSE "Failed to create cadet")

C1_Witness ==
  /\ op = "addCadetByAdmin" /\ BackendFailed /\ outcome = "threw"
  /\ answer.t = "response" /\ answer.body = JsonBody(Obj([error |-> Str(""), cadet |-> Undefined]))
  /\ value = NewError("Failed to create cadet")

\* C2 (as stated): every throw caused by a backend failure is preceded by
\* exactly one error-log event for that failure, and a successful call logs
\* nothing.
C2_LogBeforeRethrow ==
  /\ (BackendFailed /\ outcome = "threw") => LoggedThenThrown
  /\ (Invoked /\ ~BackendFailed) => Positions("log") = {}

\* C2 (amended): the fifteen SDK-based operations log the reported error
\* exactly once before rethrowing it and log nothing on success;
\* addCadetByAdmin never logs, whether the call fails or succeeds.
C2_LogBeforeRethrowExceptAddCadet ==
  /\ (BackendFailed /\ outcome = "threw" /\ op # "addCadetByAdmin")
        => LoggedThenThrown
  /\ (Invoked /\ ~BackendFailed) => Positions("log") = {}
  /\ op = "addCadetByAdmin" => Positions("log") = {}

C2_Witness ==
  /\ op = "signOut" /\ BackendFailed /\ outcome = "threw"
  /\ trace[2] = Ev("log", <<"Error signing out:", answer.error>>)
  /\ trace[3] = Ev("throw", answer.error)

\* C3: every invocation issues exactly one request to the backend, whether
\* it succeeds or fails.
C3_OneRequest ==
  Invoked => Cardinality(Positions("request")) = 1

C3_Witness ==
  /\ op = "updateCadetByAdmin" /\ BackendFailed /\ outcome = "threw"
  /\ Cardinality(Positions("request")) = 1

\* C4: addCadetByAdmin sends only the POST to the create-cadet function and
\* no table request; updateCadetByAdmin and deleteCadet write to the cadets
\* table only; no write goes to scores, score_history or cadet_achievements.
C4_NoCrossTableWrites ==
  \A i \in Positions("request") :
     LET r == trace[i].val IN
       /\ op = "addCadetByAdmin"
            => (r.kind = "fetch" /\ r.method = "POST"
                /\ r.path = "/functions/v1/create-cadet" /\ r.table = "none")
       /\ op = "updateCadetByAdmin"
            => (r.kind = "rest" /\ r.method = "update" /\ r.table = "cadets")
       /\ op = "deleteCadet"
            => (r.kind = "rest" /\ r.method = "delete" /\ r.table = "cadets")
       /\ (r.kind = "rest" /\ r.method # "select")
            => r.table \notin {"scores", "score_history", "cadet_achievements"}

C4_Witness ==
  /\ op = "deleteCadet" /\ outcome = "returned"
  /\ \E s \in db.scores : s.cadet_id = args[1]
  /\ ~\E c \in db.cadets : c.id = args[1]

\* C5: no step of any operation removes or changes a score_history row, and
\* no request is an update or delete against score_history.
C5_HistoryAppendOnly ==
  [][/\ \A h \in db.score_history : h \in db'.score_history
     /\ \A i \in DOMAIN trace' :
           trace'[i].ev = "request"
             => ~(trace'[i].val.table = "score_history"
                  /\ trace'[i].val.method \in {"update", "delete"})]_vars

C5_Witness ==
  /\ op = "deleteCadet" /\ outcome = "returned"
  /\ \E h \in db.score_history : h.cadet_id = args[1]
  /\ ~\E c \in db.cadets : c.id = args[1]

\* C6: getCadets returns every row of the cadets table, each once, in
\* non-increasing order of total_score.
C6_AllCadetsByScore ==
  (op = "getCadets" /\ outcome = "returned")
    => /\ value.t = "list"
       /\ Len(value.v) = Cardinality(db.cadets)
       /\ {value.v[i] : i \in DOMAIN value.v} = db.cadets
       /\ \A i \in 1..(Len(value.v) - 1) :
             value.v[i].total_score >= value.v[i + 1].total_score

C6_Witness ==
  /\ op = "getCadets" /\ outcome = "returned"
  /\ Len(value.v) >= 2
  /\ value.v[1].total_score > value.v[2].total_score

MatchingRows ==
  IF op = "getCadetById" THEN {c \in db.cadets : c.id = args[1]}
  ELSE {s \in db.scores : s.cadet_id = args[1]}

\* C7 (as stated): getCadetById and getCadetScores return the row when
\* exactly one row matches, return null when no row matches, and throw only
\* when the backend call fails as a whole.
C7_NullWhenMissing ==
  (op \in {"getCadetById", "getCadetScores"} /\ Invoked)
    => /\ (Cardinality(MatchingRows) = 1 /\ ~BackendFailed)
             => (outcome = "returned" /\ value.t = "object" /\ value.v \in MatchingRows)
       /\ (MatchingRows = {} /\ answer.error \notin Failures("PostgrestError"))
             => (outcome = "returned" /\ value = Null)

\* C8: getTasks returns exactly the tasks whose status is 'active', whatever
\* their is_active flag, in non-increasing order of created_at.
C8_ActiveTasksByDate ==
  (op = "getTasks" /\ outcome = "returned")
    => /\ value.t = "list"
       /\ Len(value.v) = Cardinality({t \in db.tasks : t.status = "active"})
       /\ {value.v[i] : i \in DOMAIN value.v} = {t \in db.tasks : t.status = "active"}
       /\ \A i \in 1..(Len(value.v) - 1) :
             value.v[i].created_at >= value.v[i + 1].created_at

C8_Witness ==
  /\ op = "getTasks" /\ outcome = "returned"
  /\ Len(value.v) = 1
  /\ ~value.v[1].is_active
  /\ \E t \in db.tasks : t.is_active /\ t.status # "active"

\* C9: a list-returning operation whose backend call reports no error
\* returns a list, and returns the empty list when the backend delivers no
\* data.
C9_AlwaysAList ==
  (op \in ListOps /\ Invoked /\ ~BackendFailed)
    => /\ outcome = "returned"
       /\ value.t = "list"
       /\ answer.data = Null => value = EmptyList

C9_Witness ==
  /\ op = "getScoreHistory" /\ outcome = "returned"
  /\ answer.data = Null /\ answer.error = Null
  /\ value = EmptyList

====
